---------------------------- MODULE Spec2Model ----------------------------
(***************************************************************************)
(* The refinery script of DocGPT-Nigeria/Chunking-Experiment               *)
(* (src/refine.py, with src/ingest.py and src/chunk.py): load the text of  *)
(* a PDF, split it into chunks, send each chunk of the working subset to   *)
(* the generation API, collect the parsed records and save them as JSON.   *)
(*                                                                         *)
(* The script is one sequential control thread; pc is its position.  The   *)
(* outcomes of the external capabilities (the environment, the PDF reader, *)
(* the splitter, the generation API, the file system) are drawn            *)
(* nondeterministically from small sets.                                   *)
(***************************************************************************)
EXTENDS Integers, Sequences, FiniteSets

\* Largest number of chunks the splitter returns in the model.
MaxChunks == 4

\* refine.py:133  chunks_list[:3]
TestSubsetSize == 3

\* refine.py:150  f"chunk_{i+1:04d}"
IdWidth == 4

VARIABLES
    pc,                 \* position of the script
    api_key_set,        \* GEMINI_API_KEY is in the environment (.env)
    file_exists,        \* os.path.exists(PDF_FILE_PATH)
    TESTING_MODE,       \* refine.py:17, a configuration flag
    raw_text,           \* refine.py:111
    chunks_list,        \* refine.py:118
    chunks_to_process,  \* refine.py:131-133
    i,                  \* 0-based index of the loop, refine.py:137
    json_response_text, \* refine.py:142
    all_clean_data,     \* refine.py:128
    output_file,        \* the file at OUTPUT_FILE_PATH
    exit_code,          \* exit status of the process, -1 while it runs
    report,             \* the last diagnostic of the top level, "" before any
    fault,              \* the uncaught exception that ended the run, if any
    \* history of the calls made to the external capabilities
    output_file0,       \* the file at OUTPUT_FILE_PATH when the run started
    extract_calls,      \* calls of load_text_from_pdf
    split_calls,        \* calls of chunk_the_text
    gen_calls,          \* chunks sent to model.generate_content, in order
    returned,           \* what refine_chunk returned for each of them
    pauses,             \* calls of time.sleep(2)
    writes              \* times OUTPUT_FILE_PATH was opened for writing

vars == <<pc, api_key_set, file_exists, TESTING_MODE, raw_text, chunks_list,
          chunks_to_process, i, json_response_text, all_clean_data,
          output_file, exit_code, report, fault, output_file0, extract_calls,
          split_calls, gen_calls, returned, pauses, writes>>

----------------------------------------------------------------------------
(* Values *)

\* Python's None, as the value of a text.
NoneText == "<None>"
EmptyText == ""
SomeText == "<text>"
\* raw_text before line 111 has run.
Unset == "<unset>"

\* The five fields of the prompt template, refine.py:34-44.
TemplateFields == {"category", "title", "content", "keywords", "source"}

\* A response text, by its shape: what json.loads makes of it.
Response(form, keys) == [form |-> form, keys |-> keys]
\* refine_chunk's None.
NoneResponse == Response("none", {})
EmptyResponse == Response("empty", {})
MalformedResponse == Response("malformed", {})
\* Well-formed JSON that is not an object: [], 3, "x", null.
NonObjectResponse == Response("nonobject", {})
ObjectResponse(keys) == Response("object", keys)

\* The texts response.text can hold.
ResponseTexts ==
    { EmptyResponse, MalformedResponse, NonObjectResponse,
      ObjectResponse(TemplateFields),
      ObjectResponse(TemplateFields \cup {"id"}),
      ObjectResponse(TemplateFields \cup {"note"}),
      ObjectResponse(TemplateFields \ {"keywords"}),
      ObjectResponse(TemplateFields \ {"title"}) }

\* The file at OUTPUT_FILE_PATH.
File(state, content) == [state |-> state, content |-> content]
AbsentFile == File("absent", <<>>)
OldFile == File("old", <<>>)


----------------------------------------------------------------------------
(* Python's truth tests *)

\* A test for None alone, which lets an empty text through.
NotTextNoneOnly(t) == t = NoneText

\* refine.py:113  `not raw_text`
NotText(t) == t \in {NoneText, EmptyText}

\* refine.py:120  `not chunks_list`
NoChunks(l) == Len(l) = 0

\* refine.py:144  `if json_response_text`
HasResponse(r) == r.form \notin {"none", "empty"}

\* No test of the collection before saving.
NoCleanDataUnchecked(l) == FALSE

\* refine.py:172  `not all_clean_data`
NoCleanData(l) == Len(l) = 0

----------------------------------------------------------------------------
(* The id of a record *)

RECURSIVE Digits(_)
\* The decimal digits of n, most significant first.
Digits(n) == IF n < 10 THEN <<n>> ELSE Append(Digits(n \div 10), n % 10)

RECURSIVE ZeroPad(_, _)
\* Python's 0w format: zeros on the left up to width w, never a cut.
ZeroPad(ds, w) == IF Len(ds) >= w THEN ds ELSE ZeroPad(<<0>> \o ds, w)

\* f"chunk_{n:04d}"
ChunkId(n) == <<"chunk_">> \o ZeroPad(Digits(n), IdWidth)

RECURSIVE DigitsValue(_)
\* The number a digit sequence writes.
DigitsValue(ds) ==
    IF Len(ds) = 0 THEN 0
    ELSE 10 * DigitsValue(SubSeq(ds, 1, Len(ds) - 1)) + ds[Len(ds)]

\* The number in an id made by ChunkId.
IdNumber(id) == DigitsValue(Tail(id))

\* The id a response brought along, and no id.
OwnId == <<"own">>
NoId == <<>>

----------------------------------------------------------------------------
(* The external capabilities, by their outcomes *)

\* configure_api without its safety check.
configure_api_unchecked(key_set) == "ok"

\* refine.py:49-63: raises EnvironmentError without the key.
configure_api(key_set) == IF key_set THEN "ok" ELSE "EnvironmentError"

\* ingest.py:7-34: None for a missing file; else the text of the pages, which
\* is empty when no page has text; PdfReader raises on a file it cannot read.
load_text_from_pdf(exists) ==
    IF exists THEN {EmptyText, SomeText, "PdfReadError"} ELSE {NoneText}

\* chunk.py:13-45: the splitter's list, chunk k being the k-th piece of the
\* text; empty when the text holds nothing but separators.
chunk_the_text(text) == { [k \in 1..n |-> k] : n \in 0..MaxChunks }

\* refine.py:83-100: response.text, or None when the call raises.
refine_chunk(chunk) == {NoneResponse} \cup ResponseTexts

\* json.loads: a dict for an object, another value for other JSON,
\* JSONDecodeError for the rest.
json_loads(text) ==
    CASE text.form = "object" ->
           [type |-> "dict", keys |-> text.keys,
            id |-> IF "id" \in text.keys THEN OwnId ELSE NoId]
      [] text.form = "nonobject" ->
           [type |-> "other", keys |-> {}, id |-> NoId]
      [] OTHER ->
           [type |-> "JSONDecodeError", keys |-> {}, id |-> NoId]

\* refine.py:150  data['id'] = f"chunk_{i+1:04d}"
SetId(data, idx) ==
    [data EXCEPT !.keys = @ \cup {"id"}, !.id = ChunkId(idx + 1)]

\* The last three chunks in test mode, chunks_list[-3:].
SelectLastChunks(chunks, testing) ==
    IF testing /\ Len(chunks) > TestSubsetSize
    THEN SubSeq(chunks, Len(chunks) - TestSubsetSize + 1, Len(chunks))
    ELSE chunks

\* refine.py:131-133  chunks_list, or chunks_list[:3] in test mode
SelectChunks(chunks, testing) ==
    IF testing
    THEN SubSeq(chunks, 1, IF Len(chunks) < TestSubsetSize
                           THEN Len(chunks) ELSE TestSubsetSize)
    ELSE chunks

\* The outcomes of lines 180-181: the file written, open() failing, or the
\* dump failing after open() has truncated the file.
WriteOutcomes == {"ok", "open_fails", "dump_fails"}

----------------------------------------------------------------------------
(* The run *)

Init ==
    /\ pc = "configure"
    /\ api_key_set \in BOOLEAN
    /\ file_exists \in BOOLEAN
    /\ TESTING_MODE \in BOOLEAN
    /\ raw_text = Unset
    /\ chunks_list = <<>>
    /\ chunks_to_process = <<>>
    /\ i = 0
    /\ json_response_text = NoneResponse
    /\ all_clean_data = <<>>
    /\ output_file0 \in {AbsentFile, OldFile}
    /\ output_file = output_file0
    /\ exit_code = -1
    /\ report = ""
    /\ fault = "none"
    /\ extract_calls = 0
    /\ split_calls = 0
    /\ gen_calls = <<>>
    /\ returned = <<>>
    /\ pauses = 0
    /\ writes = 0

\* exit() of site.py: SystemExit(None), status 0.
Exit(msg) == pc' = "exited" /\ exit_code' = 0 /\ report' = msg /\ fault' = fault

\* An exception nothing catches: traceback, status 1.
Crash(e) == pc' = "crashed" /\ exit_code' = 1 /\ fault' = e /\ report' = report

\* The script goes on to position p.
Goto(p) == pc' = p /\ exit_code' = exit_code /\ fault' = fault /\ report' = report

\* refine.py:106-107
ConfigureApi ==
    /\ pc = "configure"
    /\ IF configure_api(api_key_set) = "ok"
       THEN Goto("load")
       ELSE Crash(configure_api(api_key_set))
    /\ UNCHANGED <<api_key_set, file_exists, TESTING_MODE, raw_text,
                   chunks_list, chunks_to_process, i, json_response_text,
                   all_clean_data, output_file, output_file0, extract_calls,
                   split_calls, gen_calls, returned, pauses, writes>>

\* refine.py:111-115
LoadText ==
    /\ pc = "load"
    /\ extract_calls' = extract_calls + 1
    /\ \E r \in load_text_from_pdf(file_exists) :
         IF r = "PdfReadError"
         THEN Crash(r) /\ raw_text' = raw_text
         ELSE /\ raw_text' = r
              /\ IF NotText(r) THEN Exit("load_failed") ELSE Goto("chunk")
    /\ UNCHANGED <<api_key_set, file_exists, TESTING_MODE, chunks_list,
                   chunks_to_process, i, json_response_text, all_clean_data,
                   output_file, output_file0, split_calls, gen_calls,
                   returned, pauses, writes>>

\* refine.py:118-122
ChunkText ==
    /\ pc = "chunk"
    /\ split_calls' = split_calls + 1
    /\ \E l \in chunk_the_text(raw_text) :
         /\ chunks_list' = l
         /\ IF NoChunks(l) THEN Exit("chunk_failed") ELSE Goto("select")
    /\ UNCHANGED <<api_key_set, file_exists, TESTING_MODE, raw_text,
                   chunks_to_process, i, json_response_text, all_clean_data,
                   output_file, output_file0, extract_calls, gen_calls,
                   returned, pauses, writes>>

\* refine.py:128-134
SelectSubset ==
    /\ pc = "select"
    /\ all_clean_data' = <<>>
    /\ chunks_to_process' = SelectChunks(chunks_list, TESTING_MODE)
    /\ i' = 0
    /\ Goto("loop")
    /\ UNCHANGED <<api_key_set, file_exists, TESTING_MODE, raw_text,
                   chunks_list, json_response_text, output_file, output_file0,
                   extract_calls, split_calls, gen_calls, returned, pauses,
                   writes>>

\* refine.py:137-142: the next chunk of the loop goes to refine_chunk.
RefineChunk ==
    /\ pc = "loop"
    /\ i < Len(chunks_to_process)
    /\ gen_calls' = Append(gen_calls, chunks_to_process[i + 1])
    /\ \E r \in refine_chunk(chunks_to_process[i + 1]) :
         /\ json_response_text' = r
         /\ returned' = Append(returned, r)
    /\ Goto("parse")
    /\ UNCHANGED <<api_key_set, file_exists, TESTING_MODE, raw_text,
                   chunks_list, chunks_to_process, i, all_clean_data,
                   output_file, output_file0, extract_calls, split_calls,
                   pauses, writes>>

\* refine.py:144-159: parse, stamp, append, print the title.
ParseAndAppend ==
    /\ pc = "parse"
    /\ IF HasResponse(json_response_text)
       THEN LET data == json_loads(json_response_text)
                stamped == SetId(data, i)
                record == [keys |-> stamped.keys, id |-> stamped.id,
                           chunk |-> chunks_to_process[i + 1]]
            IN CASE data.type = "JSONDecodeError" ->
                      Goto("pause") /\ all_clean_data' = all_clean_data
                 [] data.type = "other" ->
                      \* line 150 on a list, a number, a string or None
                      Crash("TypeError") /\ all_clean_data' = all_clean_data
                 [] OTHER ->
                      /\ all_clean_data' = Append(all_clean_data, record)
                      /\ IF "title" \in stamped.keys
                         THEN Goto("pause")
                         ELSE Crash("KeyError")  \* line 154, data['title']
       ELSE Goto("pause") /\ all_clean_data' = all_clean_data
    /\ UNCHANGED <<api_key_set, file_exists, TESTING_MODE, raw_text,
                   chunks_list, chunks_to_process, i, json_response_text,
                   output_file, output_file0, extract_calls, split_calls,
                   gen_calls, returned, pauses, writes>>

\* refine.py:165-166, and the loop moves on.
Pause ==
    /\ pc = "pause"
    /\ pauses' = pauses + 1
    /\ i' = i + 1
    /\ Goto("loop")
    /\ UNCHANGED <<api_key_set, file_exists, TESTING_MODE, raw_text,
                   chunks_list, chunks_to_process, json_response_text,
                   all_clean_data, output_file, output_file0, extract_calls,
                   split_calls, gen_calls, returned, writes>>

\* refine.py:170-188: after the loop.
SaveStep ==
    /\ pc = "loop"
    /\ i = Len(chunks_to_process)
    /\ IF NoCleanData(all_clean_data)
       THEN Exit("no_data") /\ UNCHANGED <<output_file, writes>>
       ELSE /\ writes' = writes + 1
            /\ pc' = "end"
            /\ exit_code' = 0
            /\ fault' = fault
            /\ \E w \in WriteOutcomes :
                 CASE w = "ok" ->
                        /\ output_file' = File("written", all_clean_data)
                        /\ report' = "success"
                   [] w = "open_fails" ->
                        /\ output_file' = output_file
                        /\ report' = "critical"
                   [] OTHER ->
                        /\ output_file' = File("partial", <<>>)
                        /\ report' = "critical"
    /\ UNCHANGED <<api_key_set, file_exists, TESTING_MODE, raw_text,
                   chunks_list, chunks_to_process, i, json_response_text,
                   all_clean_data, output_file0, extract_calls, split_calls,
                   gen_calls, returned, pauses>>

Next ==
    \/ ConfigureApi
    \/ LoadText
    \/ ChunkText
    \/ SelectSubset
    \/ RefineChunk
    \/ ParseAndAppend
    \/ Pause
    \/ SaveStep

Spec == Init /\ [][Next]_vars

----------------------------------------------------------------------------
(* The states of the orchestrator, read off the script's position *)

\* Aborted is an exit() (lines 115, 122, 174), Finalized the end of the
\* script, Crashed an exception nothing catches.
State ==
    CASE pc \in {"configure", "load"} -> "Idle"
      [] pc = "chunk" -> "Extracted"
      [] pc = "select" -> "Chunked"
      [] pc \in {"loop", "parse", "pause"} -> "Refining"
      [] pc = "end" -> "Finalized"
      [] pc = "exited" -> "Aborted"
      [] OTHER -> "Crashed"

Terminated == pc \in {"end", "exited", "crashed"}

TypeOK ==
    /\ pc \in {"configure", "load", "chunk", "select", "loop", "parse",
               "pause", "end", "exited", "crashed"}
    /\ i \in 0..MaxChunks
    /\ Len(chunks_list) <= MaxChunks
    /\ exit_code \in {-1, 0, 1}

----------------------------------------------------------------------------
(* Properties *)

\* The script has passed line 134: the working subset is chosen.
InLoopOrAfter == Len(chunks_to_process) > 0

\* The k-th call's chunk failed generation or parsing: refine_chunk gave
\* None, or a text that is no JSON (the empty text is taken as None).
Failed(k) == returned[k].form \in {"none", "empty", "malformed"}

AllFailed == \A k \in 1..Len(returned) : Failed(k)

\* The six fields of a RefinedRecord.
RecordFields == TemplateFields \cup {"id"}

\* C5: when the input file is absent (load_text_from_pdf returns None) or the
\* extracted text is empty, the run is Aborted before any processing: the
\* chunker is never called, no generation call is made, no pause is taken and
\* the output file stays as it was.
C5_NoInputAborts ==
    /\ (~file_exists /\ extract_calls > 0) => raw_text = NoneText
    /\ raw_text \in {NoneText, EmptyText} =>
         /\ State = "Aborted"
         /\ report = "load_failed"
         /\ split_calls = 0
         /\ gen_calls = <<>>
         /\ pauses = 0
         /\ writes = 0
         /\ output_file = output_file0

\* An absent input file with an output file of an earlier run in place.
C5_Witness ==
    /\ ~file_exists
    /\ raw_text = NoneText
    /\ pc = "exited"
    /\ output_file0 = OldFile

\* C10: without the API credential the run fails in configure_api, before
\* any stage: no extractor, chunker or generation call, no output file.
C10_NoCredentialNoStage ==
    ~api_key_set =>
        /\ pc \in {"configure", "crashed"}
        /\ pc = "crashed" => fault = "EnvironmentError" /\ exit_code = 1
        /\ extract_calls = 0
        /\ split_calls = 0
        /\ gen_calls = <<>>
        /\ pauses = 0
        /\ writes = 0
        /\ output_file = output_file0

\* The run has failed for want of the credential.
C10_Witness ==
    /\ ~api_key_set
    /\ pc = "crashed"
    /\ fault = "EnvironmentError"
    /\ file_exists

\* What C6 says of every state.
C6_State ==
    /\ writes <= 1
    /\ output_file # output_file0 => writes = 1
    /\ writes = 1 =>
         /\ State = "Finalized"
         /\ i = Len(chunks_to_process)
         /\ gen_calls = chunks_to_process
         /\ pauses = Len(chunks_to_process)
         /\ Len(all_clean_data) > 0
    /\ output_file.state = "written" => output_file.content = all_clean_data
    /\ report = "success" => output_file = File("written", all_clean_data)
    /\ AllFailed => Len(all_clean_data) = 0
    /\ (AllFailed /\ InLoopOrAfter /\ Terminated) =>
         /\ State = "Aborted"
         /\ report = "no_data"
         /\ writes = 0
         /\ output_file = output_file0

\* What C6 says of every step: the file changes in no step but the one from
\* Refining to Finalized.
C6_Step ==
    (output_file' # output_file \/ writes' # writes) =>
        /\ State = "Refining"
        /\ State' = "Finalized"
        /\ writes' = writes + 1

RECURSIVE Appended(_)
\* The chunks among the first k sent whose response json.loads made a dict
\* of, in the order sent: those line 153 appends a record for.
Appended(k) ==
    IF k = 0 THEN <<>>
    ELSE IF returned[k].form = "object"
         THEN Append(Appended(k - 1), gen_calls[k])
         ELSE Appended(k - 1)

\* The calls whose response line 144-153 has dealt with.
Handled == IF pc = "parse" THEN Len(gen_calls) - 1 ELSE Len(gen_calls)

\* What C8 says of every state.
C8_State ==
    /\ Len(all_clean_data) <= Len(gen_calls)
    /\ [k \in 1..Len(all_clean_data) |-> all_clean_data[k].chunk]
         = Appended(Handled)
    /\ \A k \in 1..Len(all_clean_data) :
         \E p \in 1..Len(chunks_list) :
            /\ chunks_list[p] = all_clean_data[k].chunk
            /\ all_clean_data[k].id = ChunkId(p)
    /\ \A j, k \in 1..Len(all_clean_data) :
         j < k => IdNumber(all_clean_data[j].id) < IdNumber(all_clean_data[k].id)

\* What C8 says of every step: the collection only grows at its end.
C8_Step ==
    /\ Len(all_clean_data') >= Len(all_clean_data)
    /\ SubSeq(all_clean_data', 1, Len(all_clean_data)) = all_clean_data

\* C8: the output collection is ordered like the successfully processed
\* chunks: its ids are strictly increasing, it is no longer than the number
\* of chunks iterated, each id is chunk_%04d of the chunk's 1-based position
\* in the full chunk sequence (in test mode too), and a record once appended
\* is never removed, reordered or re-stamped.
C8_CollectionOrdered == []C8_State /\ [][C8_Step]_vars

\* Test mode over more chunks than the subset holds, the second chunk dropped:
\* two records, the second with the third chunk's id.
C8_Witness ==
    /\ TESTING_MODE
    /\ Len(chunks_list) > TestSubsetSize
    /\ Len(all_clean_data) = 2
    /\ all_clean_data[1].id = ChunkId(1)
    /\ all_clean_data[2].id = ChunkId(3)
    /\ pc = "end"

\* The run ended by the exception line 150 or line 154 raises on a response
\* that is JSON but not an object with a title.
ShapeFault == pc = "crashed" /\ fault \in {"TypeError", "KeyError"}

\* C1: a chunk whose generation gave None or whose response is no JSON never
\* aborts the run and adds no record, and every later chunk of the subset is
\* still sent to generation.
C1_FailedChunkNeverStopsTheRun ==
    \A k \in 1..Len(returned) :
        Failed(k) =>
            /\ \A r \in 1..Len(all_clean_data) :
                  all_clean_data[r].chunk # gen_calls[k]
            /\ ~(k = Len(returned) /\ Terminated /\ i < k)
            /\ Terminated => gen_calls = chunks_to_process

\* C1, as far as the code goes: the same, for the runs no ShapeFault ends.
C1_UnlessShapeFault == ShapeFault \/ C1_FailedChunkNeverStopsTheRun

\* C2: with the credential in place and the extractor returning, a run ends
\* Finalized or Aborted, never by an unhandled fault, whatever the chunker,
\* the generation calls and the write do.
C2_EndsFinalizedOrAborted ==
    (api_key_set /\ raw_text # Unset /\ Terminated) =>
        /\ State \in {"Finalized", "Aborted"}
        /\ fault = "none"

\* C3: every record of the collection has exactly the six fields category,
\* title, content, keywords, source and id, and the id chunk_%04d of its
\* chunk's 1-based position in the processed subset; stated of the runs that
\* have not crashed.
C3_ExactlySixFields ==
    pc # "crashed" =>
        \A k \in 1..Len(all_clean_data) :
            /\ all_clean_data[k].keys = RecordFields
            /\ \E p \in 1..Len(chunks_to_process) :
                 /\ chunks_to_process[p] = all_clean_data[k].chunk
                 /\ all_clean_data[k].id = ChunkId(p)

\* C3, as far as the code goes: a record has the fields of its response and
\* id, with the id of its chunk's position.
C3_FieldsOfTheResponse ==
    \A k \in 1..Len(all_clean_data) :
        \E p \in 1..Len(returned) :
            /\ gen_calls[p] = all_clean_data[k].chunk
            /\ chunks_to_process[p] = all_clean_data[k].chunk
            /\ all_clean_data[k].keys = returned[p].keys \cup {"id"}
            /\ all_clean_data[k].id = ChunkId(p)

\* The first min(TestSubsetSize, n) chunks in test mode, all of them without.
WorkingSubset ==
    IF TESTING_MODE /\ Len(chunks_list) > TestSubsetSize
    THEN [k \in 1..TestSubsetSize |-> chunks_list[k]]
    ELSE chunks_list

\* Every response so far is an object: generation and parsing succeeded.
AllSucceeded == \A k \in 1..Len(returned) : returned[k].form = "object"

\* C4: the working subset is the first min(3, n) chunks in test mode and the
\* full sequence otherwise; generation is called once for each chunk of it
\* and for no other; and when every call succeeds the output written holds
\* one record per chunk of the subset, with the ids chunk_0001, chunk_0002,
\* ... in order.
C4_SubsetProcessedOnce ==
    InLoopOrAfter =>
        /\ chunks_to_process = WorkingSubset
        /\ gen_calls = SubSeq(chunks_to_process, 1, Len(gen_calls))
        /\ Terminated => gen_calls = chunks_to_process
        /\ (Terminated /\ AllSucceeded) =>
             /\ pauses = Len(chunks_to_process)
             /\ Len(all_clean_data) = Len(chunks_to_process)
             /\ \A k \in 1..Len(all_clean_data) :
                   all_clean_data[k].id = ChunkId(k)
             /\ output_file.state = "written" =>
                   output_file.content = all_clean_data

\* C4, as far as the code goes: the same, for the runs no ShapeFault ends.
C4_UnlessShapeFault == ShapeFault \/ C4_SubsetProcessedOnce

\* C7: the three fatal conditions (no input text, no chunks, no records) end
\* the process with a non-zero exit status, and a run that writes its output
\* ends with status zero.
C7_FatalExitsNonZero ==
    /\ State = "Aborted" => exit_code # 0
    /\ (pc = "end" /\ output_file.state = "written") => exit_code = 0

\* C7, as far as the code goes: exit() gives status 0 like the normal end.
C7_ExitStatusZero ==
    /\ State \in {"Aborted", "Finalized"} => exit_code = 0
    /\ State = "Aborted" =>
         report \in {"load_failed", "chunk_failed", "no_data"}

\* C9: the loop is sequential and paced: one generation call per chunk of the
\* subset, every iteration followed by one pause whatever its outcome, so
\* that the pauses equal the chunks processed once the iteration is over, and
\* one pause lies between two consecutive generation calls.
C9_OnePausePerIteration ==
    /\ gen_calls = SubSeq(chunks_to_process, 1, Len(gen_calls))
    /\ pauses \in {Len(gen_calls) - 1, Len(gen_calls)}
    /\ pc \notin {"parse", "pause"} => pauses = Len(gen_calls)
    /\ (Terminated /\ InLoopOrAfter) =>
         /\ gen_calls = chunks_to_process
         /\ pauses = Len(chunks_to_process)

\* C9, as far as the code goes: the same, for the runs no ShapeFault ends.
C9_UnlessShapeFault == ShapeFault \/ C9_OnePausePerIteration

============================================================================
